---- MODULE Spec2Model ----
(***************************************************************************)
(* Model of src/index.tsx: a single-page tool that stores an API key in    *)
(* local storage and sends one "improve prompt" request per click.         *)
(*                                                                         *)
(* JavaScript strings are sequences of tokens (characters for typed text,  *)
(* words for error messages); the values null and undefined are the        *)
(* one-token sentinels below, which no typed text or message contains.     *)
(* The browser runs one handler at a time: the part of handleImproveClick  *)
(* before the await is one action, the part after it another, and any      *)
(* other handler may run in between.                                       *)
(***************************************************************************)
EXTENDS Integers, Sequences, FiniteSets, TLC

VARIABLES userApiKey, storage, originalPrompt, apiKeyInput, modalHidden,
          improveDisabled, status, improved, explanation,
          inflight, requestsIssued, acceptedClicks, ev

vars == <<userApiKey, storage, originalPrompt, apiKeyInput, modalHidden,
          improveDisabled, status, improved, explanation,
          inflight, requestsIssued, acceptedClicks, ev>>

\* ---- bounds ----
MaxPromptLen == 1
MaxRequests == 2

\* ---- JavaScript values ----
null == <<"null">>
undefined == <<"undefined">>
EmptyString == <<>>

FalsyNullOnly(v) == v = null \/ v = undefined

\* !v for v a string, null or undefined
Falsy(v) == v = null \/ v = undefined \/ v = EmptyString

Strings(chars, n) == UNION {[1..m -> chars] : m \in 0..n}

RECURSIVE TrimStart(_)
TrimStart(s) == IF s # <<>> /\ Head(s) = " " THEN TrimStart(Tail(s)) ELSE s

RECURSIVE TrimEnd(_)
TrimEnd(s) ==
  IF s # <<>> /\ s[Len(s)] = " " THEN TrimEnd(SubSeq(s, 1, Len(s) - 1)) ELSE s

TrimNothing(s) == s

TrimStartOnly(s) == TrimStart(s)

\* String.prototype.trim
Trim(s) == TrimEnd(TrimStart(s))

StartsWith(s, sub) == Len(sub) <= Len(s) /\ SubSeq(s, 1, Len(sub)) = sub

\* String.prototype.includes
Includes(s, sub) ==
  \E i \in 0..(Len(s) - Len(sub)) : SubSeq(s, i + 1, i + Len(sub)) = sub

\* ---- texts of the user interface ----
StatusInitial == "initial"
StatusSetKeyToBegin == "Please set your Gemini API Key to begin."
StatusKeySaved == "API Key saved. You can now improve your prompts!"
StatusKeyRemoved == "API Key removed. Please set a key to continue."
StatusSetKeyFirst == "Please set your API key in the settings first."
StatusEnterPrompt == "Please enter a prompt first."
StatusOptimizing == "Optimizing with AI..."
StatusSuccess == "Prompt improved successfully!"
StatusInvalidKey == "Your API Key is not valid. Please check it in settings."
StatusError == "An error occurred. Please check the console and try again."

InvalidKeyMarker == <<"API", "key", "not", "valid">>
InvalidFormatMessage == <<"Invalid", "response", "format", "from", "the", "AI.">>
SyntaxErrorMessage == <<"Unexpected", "token">>
ErrorDetailsPrefix == <<"Error Details: ">>

\* ---- what the user can type and what the network can answer ----
PromptTexts == Strings({" ", "p"}, MaxPromptLen)
\* blank, bare and padded keys; two different keys
KeyTexts == {<<>>, <<" ">>, <<"k">>, <<" ", "k", " ">>, <<"j">>}
\* what an earlier session of this program can have left in local storage
StoredKeys ==
  {null} \cup {k \in KeyTexts : k # <<>> /\ k[1] # " " /\ k[Len(k)] # " "}

\* the two fields of a parsed response: complete, one field absent, one
\* field the empty string, both absent
Responses ==
  { <<<<"P1">>, <<"E1">>>>, <<<<"P2">>, <<"E2">>>>,
    <<undefined, <<"E1">>>>, <<<<"P1">>, undefined>>,
    <<EmptyString, <<"E1">>>>, <<<<"P1">>, EmptyString>>,
    <<undefined, undefined>> }
CredentialInvalidMessages ==
  { <<"API", "key", "not", "valid">>,
    <<"400", "API", "key", "not", "valid", "Please", "pass", "a", "valid",
      "key">> }
OtherErrorMessages ==
  { <<"API", "key", "expired">>, <<"Failed", "to", "fetch">> }
RejectMessages == CredentialInvalidMessages \cup OtherErrorMessages

NoOutcome == [kind |-> "none", wellFormed |-> FALSE,
              improvedPrompt |-> undefined, explanation |-> undefined,
              message |-> EmptyString]

\* generateContent resolves with a text, or rejects with an error
Outcomes ==
  { [kind |-> "resolve", wellFormed |-> TRUE, improvedPrompt |-> r[1],
     explanation |-> r[2], message |-> EmptyString] : r \in Responses }
  \cup { [kind |-> "resolve", wellFormed |-> FALSE,
          improvedPrompt |-> undefined, explanation |-> undefined,
          message |-> EmptyString] }
  \cup { [kind |-> "reject", wellFormed |-> FALSE,
          improvedPrompt |-> undefined, explanation |-> undefined,
          message |-> m] : m \in RejectMessages }

Event(op) == [op |-> op, out |-> NoOutcome]

\* ---- handlers ----

updateUiForApiKeyInverted(key) == ~Falsy(key)

\* improveButtonEl.disabled = !userApiKey
updateUiForApiKey(key) == Falsy(key)

\* improveButtonEl.disabled = isLoading
setLoadingState(isLoading) == isLoading

initializeApp(stored) ==
  /\ storage = stored
  /\ userApiKey = stored
  /\ modalHidden = ~Falsy(stored)
  /\ apiKeyInput = EmptyString
  /\ status = IF Falsy(stored) THEN StatusSetKeyToBegin ELSE StatusInitial
  /\ improveDisabled = updateUiForApiKey(stored)
  /\ originalPrompt = EmptyString
  /\ improved = EmptyString
  /\ explanation = EmptyString
  /\ inflight = {}
  /\ requestsIssued = 0
  /\ acceptedClicks = 0
  /\ ev = Event("init")

Init == \E stored \in StoredKeys : initializeApp(stored)

\* apiKeyInputEl.value = userApiKey || ''; the modal becomes visible
showApiKeyModalEffect ==
  /\ apiKeyInput' = (IF Falsy(userApiKey) THEN EmptyString ELSE userApiKey)
  /\ modalHidden' = FALSE

\* click on the settings button
showApiKeyModal ==
  /\ showApiKeyModalEffect
  /\ ev' = Event("settings")
  /\ UNCHANGED <<userApiKey, storage, originalPrompt, improveDisabled, status,
                 improved, explanation, inflight, requestsIssued,
                 acceptedClicks>>

\* click on the close button or on the backdrop of the visible modal
hideApiKeyModal ==
  /\ ~modalHidden
  /\ modalHidden' = TRUE
  /\ ev' = Event("close")
  /\ UNCHANGED <<userApiKey, storage, originalPrompt, apiKeyInput,
                 improveDisabled, status, improved, explanation, inflight,
                 requestsIssued, acceptedClicks>>

\* click on the save button of the visible modal
saveApiKey ==
  /\ ~modalHidden
  /\ LET key == Trim(apiKeyInput) IN
       /\ IF ~Falsy(key)
            THEN /\ userApiKey' = key
                 /\ storage' = key
                 /\ status' = StatusKeySaved
                 /\ modalHidden' = TRUE
            ELSE /\ userApiKey' = null
                 /\ storage' = null
                 /\ status' = StatusKeyRemoved
                 /\ modalHidden' = modalHidden
       /\ improveDisabled' = updateUiForApiKey(userApiKey')
  /\ ev' = Event("save")
  /\ UNCHANGED <<originalPrompt, apiKeyInput, improved, explanation, inflight,
                 requestsIssued, acceptedClicks>>

\* the user edits the prompt text area
TypePrompt(text) ==
  /\ originalPrompt # text
  /\ originalPrompt' = text
  /\ ev' = Event("typePrompt")
  /\ UNCHANGED <<userApiKey, storage, apiKeyInput, modalHidden,
                 improveDisabled, status, improved, explanation, inflight,
                 requestsIssued, acceptedClicks>>

\* the user edits the key input of the visible modal
TypeApiKey(text) ==
  /\ ~modalHidden
  /\ apiKeyInput # text
  /\ apiKeyInput' = text
  /\ ev' = Event("typeKey")
  /\ UNCHANGED <<userApiKey, storage, originalPrompt, modalHidden,
                 improveDisabled, status, improved, explanation, inflight,
                 requestsIssued, acceptedClicks>>

\* clearOutputs: both output text areas are emptied
clearOutputs ==
  /\ improved' = EmptyString
  /\ explanation' = EmptyString

ClickNoKeySilent ==
  /\ Falsy(userApiKey)
  /\ status' = StatusSetKeyFirst
  /\ UNCHANGED <<userApiKey, storage, originalPrompt, apiKeyInput,
                 modalHidden, improveDisabled, improved, explanation,
                 inflight, requestsIssued, acceptedClicks>>

\* handleImproveClick, no key: status text, modal, return
ClickNoKey ==
  /\ Falsy(userApiKey)
  /\ status' = StatusSetKeyFirst
  /\ showApiKeyModalEffect
  /\ UNCHANGED <<userApiKey, storage, originalPrompt, improveDisabled,
                 improved, explanation, inflight, requestsIssued,
                 acceptedClicks>>

ClickEmptyPromptClearing ==
  /\ ~Falsy(userApiKey)
  /\ Falsy(Trim(originalPrompt))
  /\ status' = StatusEnterPrompt
  /\ improved' = EmptyString
  /\ explanation' = EmptyString
  /\ UNCHANGED <<userApiKey, storage, originalPrompt, apiKeyInput,
                 modalHidden, improveDisabled, inflight, requestsIssued,
                 acceptedClicks>>

\* handleImproveClick, key present, trimmed prompt empty: status text, return
ClickEmptyPrompt ==
  /\ ~Falsy(userApiKey)
  /\ Falsy(Trim(originalPrompt))
  /\ status' = StatusEnterPrompt
  /\ UNCHANGED <<userApiKey, storage, originalPrompt, apiKeyInput,
                 modalHidden, improveDisabled, improved, explanation,
                 inflight, requestsIssued, acceptedClicks>>

\* handleImproveClick up to the await: the request is sent with the key
\* held at that moment
ClickAccepted ==
  /\ ~Falsy(userApiKey)
  /\ ~Falsy(Trim(originalPrompt))
  /\ requestsIssued < MaxRequests
  /\ improveDisabled' = setLoadingState(TRUE)
  /\ clearOutputs
  /\ status' = StatusOptimizing
  /\ requestsIssued' = requestsIssued + 1
  /\ acceptedClicks' = acceptedClicks + 1
  /\ inflight' = inflight \cup
                   {[id |-> requestsIssued + 1, apiKey |-> userApiKey]}
  /\ UNCHANGED <<userApiKey, storage, originalPrompt, apiKeyInput,
                 modalHidden>>

\* click on the improve button; a disabled button dispatches no click
handleImproveClick ==
  /\ ~improveDisabled
  /\ ev' = Event("click")
  /\ (ClickNoKey \/ ClickEmptyPrompt \/ ClickAccepted)

ResponseAcceptedEither(out) ==
  ~Falsy(out.improvedPrompt) \/ ~Falsy(out.explanation)

\* parsedResponse.improvedPrompt && parsedResponse.explanation
ResponseAccepted(out) ==
  ~Falsy(out.improvedPrompt) /\ ~Falsy(out.explanation)

\* error.message of what the try block throws, null when it completes
ThrownMessage(out) ==
  IF out.kind = "reject" THEN out.message
  ELSE IF ~out.wellFormed THEN SyntaxErrorMessage
  ELSE IF ResponseAccepted(out) THEN null
  ELSE InvalidFormatMessage

OnSuccessKeepExplanation(out) ==
  /\ improved' = out.improvedPrompt
  /\ explanation' = explanation
  /\ status' = StatusSuccess
  /\ UNCHANGED <<apiKeyInput, modalHidden>>

\* the end of the try block
OnSuccess(out) ==
  /\ improved' = out.improvedPrompt
  /\ explanation' = out.explanation
  /\ status' = StatusSuccess
  /\ UNCHANGED <<apiKeyInput, modalHidden>>

\* the catch block
OnError(message) ==
  /\ IF Includes(message, InvalidKeyMarker)
       THEN /\ status' = StatusInvalidKey
            /\ showApiKeyModalEffect
       ELSE /\ status' = StatusError
            /\ UNCHANGED <<apiKeyInput, modalHidden>>
  /\ explanation' = ErrorDetailsPrefix \o message
  /\ improved' = improved

SettleRetry(req, out) ==
  IF out.kind = "reject" /\ requestsIssued < MaxRequests
    THEN /\ inflight' = (inflight \ {req}) \cup
                          {[id |-> requestsIssued + 1, apiKey |-> req.apiKey]}
         /\ requestsIssued' = requestsIssued + 1
         /\ UNCHANGED acceptedClicks
    ELSE /\ inflight' = inflight \ {req}
         /\ UNCHANGED <<requestsIssued, acceptedClicks>>

\* the awaited call has settled: the request is over and nothing is sent
Settle(req, out) ==
  /\ inflight' = inflight \ {req}
  /\ UNCHANGED <<requestsIssued, acceptedClicks>>

\* handleImproveClick from the await on: try, catch, finally
handleImproveResume(req, out) ==
  /\ req \in inflight
  /\ Settle(req, out)
  /\ IF ThrownMessage(out) = null
       THEN OnSuccess(out)
       ELSE OnError(ThrownMessage(out))
  /\ improveDisabled' = setLoadingState(FALSE)
  /\ ev' = [op |-> "response", out |-> out]
  /\ UNCHANGED <<userApiKey, storage, originalPrompt>>

Next ==
  \/ handleImproveClick
  \/ \E req \in inflight, out \in Outcomes : handleImproveResume(req, out)
  \/ showApiKeyModal
  \/ hideApiKeyModal
  \/ saveApiKey
  \/ \E text \in PromptTexts : TypePrompt(text)
  \/ \E text \in KeyTexts : TypeApiKey(text)

Spec == Init /\ [][Next]_vars

\* local storage is shared with the rest of the origin and with the user's
\* developer tools: getItem may return any string, the empty one included
AnyStoredValues == {null} \cup KeyTexts

InitAnyStorage == \E stored \in AnyStoredValues : initializeApp(stored)

SpecAnyStorage == InitAnyStorage /\ [][Next]_vars

\* ---- properties ----

Blank(s) == \A i \in 1..Len(s) : s[i] = " "

Responded == ev.op = "response"

\* C1: at most one improve request is outstanding in every reachable state,
\* whatever the order of improve clicks, save-key clicks and responses.
C1_AtMostOneInFlight == Cardinality(inflight) <= 1

\* C2: a click handled while no key is held sends no request, sets the
\* status that asks for the key and leaves the key modal visible.
C2_NoKeyNoCall ==
  [][(ev'.op = "click" /\ userApiKey = null)
       => /\ inflight' = inflight
          /\ requestsIssued' = requestsIssued
          /\ status' = StatusSetKeyFirst
          /\ ~modalHidden']_vars

C2_Witness ==
  /\ ev.op = "click"
  /\ userApiKey = null
  /\ storage = null
  /\ status = StatusSetKeyFirst
  /\ ~modalHidden

\* C3: a click handled while the prompt is empty or only whitespace sends
\* no request, with or without a key.
C3_BlankPromptNoCall ==
  [][(ev'.op = "click" /\ Blank(originalPrompt))
       => /\ inflight' = inflight
          /\ requestsIssued' = requestsIssued]_vars

C3_Witness ==
  /\ ev.op = "click"
  /\ userApiKey # null
  /\ originalPrompt # EmptyString
  /\ Blank(originalPrompt)
  /\ status = StatusEnterPrompt

\* C4 as stated: every parsed response that carries both fields as strings
\* (empty strings included) fills both outputs with them and reports success.
C4_BothFieldsPopulate ==
  [][(/\ ev'.op = "response"
      /\ ev'.out.kind = "resolve"
      /\ ev'.out.wellFormed
      /\ ev'.out.improvedPrompt # undefined
      /\ ev'.out.explanation # undefined)
       => /\ improved' = ev'.out.improvedPrompt
          /\ explanation' = ev'.out.explanation
          /\ status' = StatusSuccess]_vars

\* C4 amended: every parsed response that carries both fields as non-empty
\* strings fills both outputs with them and reports success, so that the
\* explanation output no longer holds error details.
C4_NonEmptyFieldsPopulate ==
  [][(/\ ev'.op = "response"
      /\ ev'.out.kind = "resolve"
      /\ ev'.out.wellFormed
      /\ ev'.out.improvedPrompt \notin {undefined, EmptyString}
      /\ ev'.out.explanation \notin {undefined, EmptyString})
       => /\ improved' = ev'.out.improvedPrompt
          /\ explanation' = ev'.out.explanation
          /\ status' = StatusSuccess]_vars

C4_Witness ==
  /\ Responded
  /\ ev.out.improvedPrompt = <<"P2">>
  /\ ev.out.explanation = <<"E2">>
  /\ improved = <<"P2">>
  /\ explanation = <<"E2">>
  /\ status = StatusSuccess
  /\ requestsIssued = 2

\* C5 as stated: a parsed response that lacks a required field is reported
\* as an error and both outputs are empty afterwards.
C5_MissingFieldOutputsEmpty ==
  [][(/\ ev'.op = "response"
      /\ ev'.out.kind = "resolve"
      /\ ev'.out.wellFormed
      /\ (ev'.out.improvedPrompt = undefined
            \/ ev'.out.explanation = undefined))
       => /\ status' = StatusError
          /\ improved' = EmptyString
          /\ explanation' = EmptyString]_vars

\* C5 amended: a parsed response that lacks a required field is reported as
\* an error, the explanation output holds the details of the invalid-format
\* error, and the improved-prompt output is not written.
C5_MissingFieldIsError ==
  [][(/\ ev'.op = "response"
      /\ ev'.out.kind = "resolve"
      /\ ev'.out.wellFormed
      /\ (ev'.out.improvedPrompt = undefined
            \/ ev'.out.explanation = undefined))
       => /\ status' = StatusError
          /\ explanation' = ErrorDetailsPrefix \o InvalidFormatMessage
          /\ improved' = improved]_vars

C5_Witness ==
  /\ Responded
  /\ ev.out.wellFormed
  /\ ev.out.improvedPrompt = <<"P1">>
  /\ ev.out.explanation = undefined
  /\ status = StatusError
  /\ improved = EmptyString
  /\ explanation = ErrorDetailsPrefix \o InvalidFormatMessage

\* C6 as stated: a failure whose message contains the invalid-key marker
\* shows the key modal, reports an invalid key and leaves both outputs empty.
C6_InvalidKeyOutputsEmpty ==
  [][(/\ ev'.op = "response"
      /\ ev'.out.kind = "reject"
      /\ ev'.out.message \in CredentialInvalidMessages)
       => /\ ~modalHidden'
          /\ status' = StatusInvalidKey
          /\ improved' = EmptyString
          /\ explanation' = EmptyString]_vars

\* C6 amended: a failure whose message contains the invalid-key marker shows
\* the key modal and reports an invalid key; the explanation output holds the
\* error details and the improved-prompt output is not written.
C6_InvalidKeyReopensModal ==
  [][(/\ ev'.op = "response"
      /\ ev'.out.kind = "reject"
      /\ ev'.out.message \in CredentialInvalidMessages)
       => /\ ~modalHidden'
          /\ status' = StatusInvalidKey
          /\ explanation' = ErrorDetailsPrefix \o ev'.out.message
          /\ improved' = improved]_vars

C6_Witness ==
  /\ Responded
  /\ ev.out.kind = "reject"
  /\ Len(ev.out.message) > Len(InvalidKeyMarker)
  /\ ev.out.message \in CredentialInvalidMessages
  /\ ~modalHidden
  /\ status = StatusInvalidKey
  /\ explanation = ErrorDetailsPrefix \o ev.out.message

\* C7: a failure of any other kind shows the generic error status, writes
\* the error details to the explanation output, leaves the improved-prompt
\* output empty and does not touch the key modal.
C7_OtherErrorGeneric ==
  [][(/\ ev'.op = "response"
      /\ ev'.out.kind = "reject"
      /\ ev'.out.message \in OtherErrorMessages)
       => /\ status' = StatusError
          /\ explanation' = ErrorDetailsPrefix \o ev'.out.message
          /\ improved' = EmptyString
          /\ modalHidden' = modalHidden]_vars

\* C8: the improve button is disabled for as long as a request is
\* outstanding.
C8_DisabledWhileInFlight == inflight # {} => improveDisabled

\* C9: a request is sent only by a click that passes both checks, exactly
\* one per such click; handling a response or a failure sends nothing; the
\* requests sent never outnumber the accepted clicks.
C9_NoRetries ==
  /\ [](requestsIssued <= acceptedClicks)
  /\ [][IF ev'.op = "click" /\ userApiKey # null /\ ~Blank(originalPrompt)
          THEN /\ requestsIssued' = requestsIssued + 1
               /\ Cardinality(inflight') = Cardinality(inflight) + 1
          ELSE /\ requestsIssued' = requestsIssued
               /\ inflight' \subseteq inflight]_vars

C9_Witness ==
  /\ Responded
  /\ ev.out.kind = "reject"
  /\ status = StatusError
  /\ inflight = {}
  /\ requestsIssued = 1
  /\ acceptedClicks = 1

\* C10: the key in local storage is absent or a non-empty string without
\* surrounding whitespace, the key in memory equals it, and after a save of
\* a blank input the stored key is absent.
C10_StoredKeyTrimmed ==
  /\ userApiKey = storage
  /\ \/ storage = null
     \/ /\ storage # EmptyString
        /\ storage[1] # " "
        /\ storage[Len(storage)] # " "
  /\ (ev.op = "save" /\ Blank(apiKeyInput)) => storage = null
  /\ (ev.op = "save" /\ ~Blank(apiKeyInput)) => storage # null

C10_Witness ==
  /\ ev.op = "save"
  /\ apiKeyInput # EmptyString
  /\ Blank(apiKeyInput)
  /\ storage = null
  /\ userApiKey = null
  /\ requestsIssued > 0

\* C11: while a request is outstanding the key in memory is the key that
\* request was sent with: no save or removal of the key falls between the
\* sending of a request and the handling of its response.
C11_KeyStableAcrossRequest == \A req \in inflight : req.apiKey = userApiKey

\* C12: whenever no request is outstanding, the improve button is enabled
\* exactly when a key is held.
C12_EnabledIffKey == inflight = {} => (improveDisabled <=> userApiKey = null)

\* C13: whenever the improved-prompt output is not empty, the two outputs
\* are the two fields of one accepted response; the explanation output is
\* then never error details.
C13_OutputsFromOneResponse ==
  improved # EmptyString =>
    \E r \in Responses : r[1] = improved /\ r[2] = explanation
                           /\ r[2] \notin {undefined, EmptyString}

IsTrimOf(s, t) ==
  \E i \in 1..Len(t), j \in 1..Len(t) :
    /\ i <= j
    /\ s = SubSeq(t, i, j)
    /\ t[i] # " "
    /\ t[j] # " "
    /\ Blank(SubSeq(t, 1, i - 1))
    /\ Blank(SubSeq(t, j + 1, Len(t)))

\* C14: a save of a non-blank input puts the trimmed input in memory and in
\* local storage, hides the modal and enables the improve button; a save of
\* a blank input clears both keys, leaves the modal visible and disables the
\* button; neither writes the two outputs.
C14_SaveKey ==
  [][ev'.op = "save"
       => /\ IF Blank(apiKeyInput)
               THEN /\ userApiKey' = null
                    /\ storage' = null
                    /\ ~modalHidden'
                    /\ improveDisabled'
               ELSE /\ IsTrimOf(userApiKey', apiKeyInput)
                    /\ storage' = userApiKey'
                    /\ modalHidden'
                    /\ ~improveDisabled'
          /\ improved' = improved
          /\ explanation' = explanation]_vars

C14_Witness ==
  /\ ev.op = "save"
  /\ apiKeyInput = <<" ", "k", " ">>
  /\ userApiKey = <<"k">>
  /\ storage = <<"k">>
  /\ modalHidden
  /\ ~improveDisabled
  /\ improved # EmptyString
  /\ explanation # EmptyString

\* C15: a click that is rejected, for want of a key or of a prompt, writes
\* the status only and, when the key is missing, shows the modal with an
\* empty key input; the outputs, the button, both keys, the prompt and the
\* outstanding requests are as before.
C15_RejectedClickFrame ==
  [][(ev'.op = "click" /\ (userApiKey = null \/ Blank(originalPrompt)))
       => /\ improved' = improved
          /\ explanation' = explanation
          /\ improveDisabled' = improveDisabled
          /\ storage' = storage
          /\ userApiKey' = userApiKey
          /\ originalPrompt' = originalPrompt
          /\ inflight' = inflight
          /\ requestsIssued' = requestsIssued
          /\ IF userApiKey = null
               THEN /\ status' = StatusSetKeyFirst
                    /\ ~modalHidden'
                    /\ apiKeyInput' = EmptyString
               ELSE /\ status' = StatusEnterPrompt
                    /\ modalHidden' = modalHidden
                    /\ apiKeyInput' = apiKeyInput]_vars

C15_Witness ==
  /\ ev.op = "click"
  /\ status = StatusEnterPrompt
  /\ Blank(originalPrompt)
  /\ improved # EmptyString
  /\ explanation # EmptyString
  /\ ~improveDisabled

\* C16: right after initialization no request has been sent; if local
\* storage held no key or an empty one the modal is visible, the improve
\* button disabled and the status asks for the key; otherwise the button is
\* enabled and the modal hidden.
C16_Initialization ==
  ev.op = "init"
    => /\ inflight = {}
       /\ requestsIssued = 0
       /\ IF storage \in {null, EmptyString}
            THEN /\ ~modalHidden
                 /\ improveDisabled
                 /\ status = StatusSetKeyToBegin
            ELSE /\ modalHidden
                 /\ ~improveDisabled
                 /\ status = StatusInitial

C16_Witness ==
  /\ ev.op = "init"
  /\ storage = EmptyString
  /\ ~modalHidden
  /\ improveDisabled
  /\ status = StatusSetKeyToBegin

====
